---- MODULE Spec2Model ----
(***************************************************************************)
(* Model of odak/learn/tools/transformation.py: the three axis rotation    *)
(* matrices, rotate_point, rotate_points and tilt_towards.                 *)
(*                                                                         *)
(* Numbers.  Angles are whole degrees and every rotation angle is a        *)
(* multiple of 90, where cosine and sine are -1, 0 or 1, so that matrices  *)
(* and points stay integer.  (In float32 cos(pi/2) is about -4.4e-8; that  *)
(* residual lies below the tolerance the properties are stated with and    *)
(* is not modelled.)  A float that may be NaN is a record [nan, deg].      *)
(*                                                                         *)
(* Arguments.  origin and offset are documented as Python lists and        *)
(* default to the list [0, 0, 0]; a caller may also pass tensors.  The     *)
(* code treats the two differently (torch.tensor(origin) accepts both,     *)
(* `result += origin` accepts a tensor only), so an argument is a record   *)
(* [form, val] with form "list" or "tensor".  A tensor argument has the    *)
(* shape that broadcasts against the point(s) element by element: 3x1 for  *)
(* rotate_point, whose point must be a 3x1 column for torch.mm, and (3,)   *)
(* for rotate_points, whose points are N x 3.                              *)
(***************************************************************************)
EXTENDS Integers, Sequences, FiniteSets

VARIABLES points, held0, call, ncalls

vars == <<points, held0, call, ncalls>>

\* ---------------------------------------------------------------- bounds
MaxCalls == 2
MaxPoints == 2

\* ---------------------------------------------------------------- inputs
Modes == {"XYZ", "XZY", "YXZ", "ZXY", "ZYX"}
ModeInputs == Modes \cup {"YZX"}

AngleVals == {0, 90, 180}
AngleTriples == {<<a, b, c>> : a \in AngleVals, b \in AngleVals, c \in AngleVals}
MatrixAngles == {-450, -180, -90, 0, 90, 180, 270, 360, 450}

Zero3 == <<0, 0, 0>>
Forms == {"list", "tensor"}
OriginInputs == {[form |-> f, val |-> v] : f \in Forms, v \in {Zero3, <<1, 2, 3>>}}
OffsetInputs == {[form |-> f, val |-> v] : f \in Forms, v \in {Zero3, <<1, 1, 1>>}}

BasePoints == <<  <<1, 0, 0>>, <<0, 1, 0>>, <<1, 2, 3>>, <<0, 0, 0>>  >>
PointInputs == {BasePoints[i] : i \in 1..Len(BasePoints)}
PointArrays ==
    {SubSeq(BasePoints, w[1], w[1] + w[2] - 1) :
        w \in {v \in (1..Len(BasePoints)) \X (1..MaxPoints) :
                  v[1] + v[2] - 1 <= Len(BasePoints)}}

\* ---------------------------------------------------------------- vectors
VAdd(u, v) == <<u[1] + v[1], u[2] + v[2], u[3] + v[3]>>
VSub(u, v) == <<u[1] - v[1], u[2] - v[2], u[3] - v[3]>>
Dot(u, v) == u[1] * v[1] + u[2] * v[2] + u[3] * v[3]

\* torch.mm(R, p) for a 3x3 matrix R (a tuple of rows) and a column p
mm(R, p) == <<Dot(R[1], p), Dot(R[2], p), Dot(R[3], p)>>

\* math.cos / math.sin of torch.deg2rad(angle), angle a multiple of 90
Cos(angle) == CASE angle % 360 = 0 -> 1
                [] angle % 360 = 90 -> 0
                [] angle % 360 = 180 -> -1
                [] angle % 360 = 270 -> 0

Sin(angle) == CASE angle % 360 = 0 -> 0
                [] angle % 360 = 90 -> 1
                [] angle % 360 = 180 -> 0
                [] angle % 360 = 270 -> -1


\* ---------------------------------------------------------------- matrices
rotmatx_sign(angle) ==
    << <<1, 0, 0>>,
       <<0, Cos(angle), Sin(angle)>>,
       <<0, Sin(angle), Cos(angle)>> >>

rotmatx(angle) ==
    << <<1, 0, 0>>,
       <<0, Cos(angle), -Sin(angle)>>,
       <<0, Sin(angle), Cos(angle)>> >>

rotmaty_sign(angle) ==
    << <<Cos(angle), 0, Sin(angle)>>,
       <<0, 1, 0>>,
       <<Sin(angle), 0, Cos(angle)>> >>

rotmaty(angle) ==
    << <<Cos(angle), 0, Sin(angle)>>,
       <<0, 1, 0>>,
       <<-Sin(angle), 0, Cos(angle)>> >>

rotmatz(angle) ==
    << <<Cos(angle), -Sin(angle), 0>>,
       <<Sin(angle), Cos(angle), 0>>,
       <<0, 0, 1>> >>

\* ---------------------------------------------------------------- rotation
\* `result` before any branch of the if/elif chain has assigned it
Unbound == <<>>

Compose_copied(mode, rotx, roty, rotz, p) ==
    CASE mode = "XYZ" -> mm(rotz, mm(roty, mm(rotx, p)))
      [] mode = "XZY" -> mm(rotz, mm(roty, mm(rotx, p)))
      [] mode = "YXZ" -> mm(rotz, mm(rotx, mm(roty, p)))
      [] mode = "ZXY" -> mm(roty, mm(rotx, mm(rotz, p)))
      [] mode = "ZYX" -> mm(rotx, mm(roty, mm(rotz, p)))
      [] OTHER -> Unbound

\* the if/elif chain on mode, for one column; no branch for any other mode
Compose(mode, rotx, roty, rotz, p) ==
    CASE mode = "XYZ" -> mm(rotz, mm(roty, mm(rotx, p)))
      [] mode = "XZY" -> mm(roty, mm(rotz, mm(rotx, p)))
      [] mode = "YXZ" -> mm(rotz, mm(rotx, mm(roty, p)))
      [] mode = "ZXY" -> mm(roty, mm(rotx, mm(rotz, p)))
      [] mode = "ZYX" -> mm(rotx, mm(roty, mm(rotz, p)))
      [] OTHER -> Unbound

Raise(error) == [outcome |-> error, result |-> <<>>]

\* rotate_point: the in-place adds take origin and offset as passed, and a
\* tensor accepts no Python list in `+=`
rotate_point(point, angles, mode, origin, offset) ==
    LET p == VSub(point, origin.val)
        rotx == rotmatx(angles[1])
        roty == rotmaty(angles[2])
        rotz == rotmatz(angles[3])
        result == Compose(mode, rotx, roty, rotz, p)
    IN  IF result = Unbound THEN Raise("UnboundLocalError")
        ELSE IF origin.form = "list" THEN Raise("TypeError")
        ELSE IF offset.form = "list" THEN Raise("TypeError")
        ELSE [outcome |-> "ok",
              result |-> VAdd(VAdd(result, origin.val), offset.val),
              rotx |-> rotx, roty |-> roty, rotz |-> rotz]

\* line 143
ZeroAngles(angles) == angles[1] = 0 /\ angles[2] = 0 /\ angles[3] = 0

FastPath_no_offset(pts, offset) == pts

\* lines 144-145
FastPath(pts, offset) == [i \in DOMAIN pts |-> VAdd(offset.val, pts[i])]

Recentre_skipped(pts, origin) == pts

\* line 146, in place on the caller's array
Recentre(pts, origin) == [i \in DOMAIN pts |-> VSub(pts[i], origin.val)]

\* rotate_points: `points` is what the caller's array holds afterwards
rotate_points(pts, angles, mode, origin, offset) ==
    IF ZeroAngles(angles)
    THEN [outcome |-> "ok", result |-> FastPath(pts, offset), points |-> pts]
    ELSE
      LET moved == Recentre(pts, origin)
          rotx == rotmatx(angles[1])
          roty == rotmaty(angles[2])
          rotz == rotmatz(angles[3])
      IN  IF mode \notin Modes
          THEN [outcome |-> "UnboundLocalError", result |-> <<>>, points |-> moved]
          ELSE [outcome |-> "ok",
                result |-> [i \in DOMAIN moved |->
                    VAdd(VAdd(Compose(mode, rotx, roty, rotz, moved[i]),
                              origin.val), offset.val)],
                points |-> moved]

\* ---------------------------------------------------------------- tilt
Float(d) == [nan |-> FALSE, deg |-> d]
NaN == [nan |-> TRUE, deg |-> 0]

\* the displacements whose two angles are multiples of 45 degrees
TiltCoords == {0, 1}
TiltPoints == {<<x, y, z>> : x \in TiltCoords, y \in TiltCoords, z \in TiltCoords}
TiltExact(d) == d[1] = 0 \/ d[2] = 0 \/ d[3] = 0
TiltInputs ==
    {io \in TiltPoints \X TiltPoints : TiltExact(VSub(io[1], io[2]))}

\* rad2deg(torch.atan2(dy, dx)); atan2(0, 0) is 0
Atan2Deg(dy, dx) ==
    CASE dy = 0 /\ dx >= 0 -> 0
      [] dy = 0 /\ dx < 0 -> 180
      [] dx = 0 /\ dy > 0 -> 90
      [] dx = 0 /\ dy < 0 -> -90
      [] dx = dy /\ dx > 0 -> 45
      [] dx = dy /\ dx < 0 -> -135
      [] dx = -dy /\ dx > 0 -> -45
      [] dx = -dy /\ dx < 0 -> 135

\* rad2deg(torch.arccos(dz / dist)), dist = sqrt(dist2); the tensor division
\* 0 / 0 is NaN and raises nothing, and arccos(NaN) is NaN
ArccosDeg(dz, dist2) ==
    CASE dist2 = 0 -> NaN
      [] dist2 > 0 /\ dz = 0 -> Float(90)
      [] dist2 > 0 /\ dz * dz = dist2 /\ dz > 0 -> Float(0)
      [] dist2 > 0 /\ dz * dz = dist2 /\ dz < 0 -> Float(180)
      [] dist2 > 0 /\ 2 * dz * dz = dist2 /\ dz > 0 -> Float(45)
      [] dist2 > 0 /\ 2 * dz * dz = dist2 /\ dz < 0 -> Float(135)

tilt_towards_checked(location, lookat) ==
    IF location = lookat
    THEN Raise("ZeroDivisionError")
    ELSE [outcome |-> "ok",
          result |-> << Float(0),
                        ArccosDeg(location[3] - lookat[3],
                                  Dot(VSub(location, lookat), VSub(location, lookat))),
                        Float(Atan2Deg(location[2] - lookat[2],
                                       location[1] - lookat[1])) >>]

tilt_towards(location, lookat) ==
    LET dx == location[1] - lookat[1]
        dy == location[2] - lookat[2]
        dz == location[3] - lookat[3]
        dist2 == dx * dx + dy * dy + dz * dz
        phi == Float(Atan2Deg(dy, dx))
        theta == ArccosDeg(dz, dist2)
    IN  [outcome |-> "ok", result |-> <<Float(0), theta, phi>>]

\* ---------------------------------------------------------------- calls
\* `call` is the call the caller has made and whose outcome it holds; the
\* module is synchronous, so the caller makes one call at a time.  `points` is
\* the array the caller passes to rotate_points, `held0` what it held at first,
\* `ncalls` the number of rotate_points calls made on it.
Idle == [fn |-> "none"]

Init ==
    /\ points \in PointArrays
    /\ held0 = points
    /\ call = Idle
    /\ ncalls = 0

CallRotmatx ==
    /\ call = Idle
    /\ \E angle \in MatrixAngles :
           /\ call' = [fn |-> "rotmatx", angle |-> angle, outcome |-> "ok",
                       result |-> rotmatx(angle)]
           /\ UNCHANGED <<points, held0, ncalls>>

CallRotmaty ==
    /\ call = Idle
    /\ \E angle \in MatrixAngles :
           /\ call' = [fn |-> "rotmaty", angle |-> angle, outcome |-> "ok",
                       result |-> rotmaty(angle)]
           /\ UNCHANGED <<points, held0, ncalls>>

CallRotmatz ==
    /\ call = Idle
    /\ \E angle \in MatrixAngles :
           /\ call' = [fn |-> "rotmatz", angle |-> angle, outcome |-> "ok",
                       result |-> rotmatz(angle)]
           /\ UNCHANGED <<points, held0, ncalls>>

\* rotate_point(point, angles, mode, origin, offset) on a fresh 3x1 column
\* holding one row of the caller's array
CallRotatePoint ==
    /\ call = Idle
    /\ \E point \in {points[i] : i \in DOMAIN points}, angles \in AngleTriples, mode \in ModeInputs,
          origin \in OriginInputs, offset \in OffsetInputs :
           /\ LET r == rotate_point(point, angles, mode, origin, offset)
              IN  call' = [fn |-> "rotate_point", input |-> point, angles |-> angles,
                           mode |-> mode, origin |-> origin, offset |-> offset,
                           outcome |-> r.outcome, result |-> r.result]
           /\ UNCHANGED <<points, held0, ncalls>>

\* rotate_points(points, angles, mode, origin, offset) on the array the
\* caller holds
CallRotatePoints ==
    /\ call = Idle
    /\ ncalls < MaxCalls
    /\ \E angles \in AngleTriples, mode \in ModeInputs,
          origin \in OriginInputs, offset \in OffsetInputs :
           /\ LET r == rotate_points(points, angles, mode, origin, offset)
              IN  /\ call' = [fn |-> "rotate_points", input |-> points,
                              angles |-> angles, mode |-> mode, origin |-> origin,
                              offset |-> offset, outcome |-> r.outcome,
                              result |-> r.result]
                  /\ points' = r.points
           /\ ncalls' = ncalls + 1
           /\ UNCHANGED held0

CallTiltTowards ==
    /\ call = Idle
    /\ \E io \in TiltInputs :
           /\ LET r == tilt_towards(io[1], io[2])
              IN  call' = [fn |-> "tilt_towards", location |-> io[1], lookat |-> io[2],
                           outcome |-> r.outcome, result |-> r.result]
           /\ UNCHANGED <<points, held0, ncalls>>

\* the caller is done with the outcome and goes on to its next call
Return ==
    /\ call # Idle
    /\ call' = Idle
    /\ UNCHANGED <<points, held0, ncalls>>

Next ==
    \/ CallRotmatx
    \/ CallRotmaty
    \/ CallRotmatz
    \/ CallRotatePoint
    \/ CallRotatePoints
    \/ CallTiltTowards
    \/ Return

Spec == Init /\ [][Next]_vars

\* ---------------------------------------------------------------- properties
Rotations == {"rotate_point", "rotate_points"}
Matrices == {"rotmatx", "rotmaty", "rotmatz"}
Identity3 == << <<1, 0, 0>>, <<0, 1, 0>>, <<0, 0, 1>> >>
Column(R, j) == <<R[1][j], R[2][j], R[3][j]>>
Transpose(R) == <<Column(R, 1), Column(R, 2), Column(R, 3)>>
MatMul(A, B) == [i \in 1..3 |-> [j \in 1..3 |-> Dot(A[i], Column(B, j))]]
Det(R) ==
      R[1][1] * (R[2][2] * R[3][3] - R[2][3] * R[3][2])
    - R[1][2] * (R[2][1] * R[3][3] - R[2][3] * R[3][1])
    + R[1][3] * (R[2][1] * R[3][2] - R[2][2] * R[3][1])
SqDist(u, v) == Dot(VSub(u, v), VSub(u, v))

\* the points a rotation call was given and the points it returned, as arrays
GivenPoints == IF call.fn = "rotate_point" THEN <<call.input>> ELSE call.input
ReturnedPoints == IF call.fn = "rotate_point" THEN <<call.result>> ELSE call.result

\* the earliest-named axis of the mode applied first
InNameOrder(mode, angles, v) ==
    LET X(u) == mm(rotmatx(angles[1]), u)
        Y(u) == mm(rotmaty(angles[2]), u)
        Z(u) == mm(rotmatz(angles[3]), u)
    IN  CASE mode = "XYZ" -> Z(Y(X(v)))
          [] mode = "XZY" -> Y(Z(X(v)))
          [] mode = "YXZ" -> Z(X(Y(v)))
          [] mode = "ZXY" -> Y(X(Z(v)))
          [] mode = "ZYX" -> X(Y(Z(v)))

\* C1: a mode outside the five supported ones makes rotate_point and
\* rotate_points end in the error of the unmatched branch and return nothing,
\* whatever the angles, the origin and the offset.
C1_InvalidModeFails ==
    (call.fn \in Rotations /\ call.mode \notin Modes)
        => (call.outcome = "UnboundLocalError" /\ call.result = <<>>)

\* C2: rotate_points leaves the caller's points array as it was before the
\* first call.
C2_PointsUntouched == points = held0

\* C3: with all three angles zero, rotate_points returns every point shifted by
\* offset, in input order, for every supported mode and every origin.
C3_ZeroAnglesShift ==
    (call.fn = "rotate_points" /\ call.angles = Zero3 /\ call.mode \in Modes)
        => /\ call.outcome = "ok"
           /\ Len(call.result) = Len(call.input)
           /\ \A i \in DOMAIN call.input :
                  call.result[i] = VAdd(call.input[i], call.offset.val)

C3_Witness ==
    /\ call.fn = "rotate_points"
    /\ call.angles = Zero3
    /\ call.mode = "ZXY"
    /\ call.origin.val # Zero3
    /\ call.offset.val # Zero3
    /\ Len(call.input) = 2
    /\ call.outcome = "ok"
    /\ call.result # call.input

\* C4: with all three angles zero, rotate_point returns point + offset for
\* every supported mode, every origin and every offset, the default list
\* arguments included.
C4_ZeroAnglesPoint ==
    (call.fn = "rotate_point" /\ call.angles = Zero3 /\ call.mode \in Modes)
        => /\ call.outcome = "ok"
           /\ call.result = VAdd(call.input, call.offset.val)

C6_SinglePointAgrees ==
    (call.fn = "rotate_point" /\ call.mode \in Modes)
        => LET batch == rotate_points(<<call.input>>, call.angles, call.mode,
                                      call.origin, call.offset)
           IN  /\ batch.outcome = call.outcome
               /\ call.outcome = "ok" => batch.result = <<call.result>>

\* C7: rotating by theta about X and then rotating the result by -theta about
\* X, same origin, zero offset, returns the original points.
C7_RoundTripX ==
    (/\ call.fn = "rotate_points"
     /\ call.angles[2] = 0 /\ call.angles[3] = 0
     /\ call.offset.val = Zero3
     /\ call.mode \in Modes)
        => /\ call.outcome = "ok"
           /\ \A mode \in Modes :
                LET back == rotate_points(call.result, <<-call.angles[1], 0, 0>>,
                                          mode, call.origin, call.offset)
                IN  back.outcome = "ok" /\ back.result = call.input

C7_Witness ==
    /\ call.fn = "rotate_points"
    /\ call.angles = <<90, 0, 0>>
    /\ call.offset.val = Zero3
    /\ call.origin.val # Zero3
    /\ call.mode \in Modes
    /\ call.outcome = "ok"
    /\ call.result # call.input

\* C8: each axis rotation matrix is a proper rotation (transpose times matrix
\* is the identity, determinant +1), and the identity at angle 0.
C8_ProperRotation ==
    call.fn \in Matrices
        => /\ MatMul(Transpose(call.result), call.result) = Identity3
           /\ Det(call.result) = 1
           /\ call.angle = 0 => call.result = Identity3

C8_Witness ==
    /\ call.fn = "rotmaty"
    /\ call.angle = -450
    /\ call.result # Identity3

\* C9: tilt_towards always returns; the first angle is 0, and for coincident
\* location and lookat the polar angle is NaN.
C9_TiltNeverRaises ==
    call.fn = "tilt_towards"
        => /\ call.outcome = "ok"
           /\ call.result[1] = Float(0)
           /\ call.location = call.lookat => call.result[2].nan

C9_Witness ==
    /\ call.fn = "tilt_towards"
    /\ call.location = call.lookat
    /\ call.outcome = "ok"
    /\ call.result[2].nan

====
